---- MODULE Spec2Model ----
(***************************************************************************)
(* Model of src/components/SorbentCapture.jsx: the Co2FilterCalculator     *)
(* React component.  The state is the eleven useState cells, the useMemo   *)
(* cell (its dependency array and its cached value) and what the last      *)
(* render put on screen (the toFixed strings and the status class of the   *)
(* headline output).  Mount is the first render; then one action per       *)
(* InputControl: a click on one of its preset buttons calls the control's  *)
(* setter and React re-renders.  clicks counts the selection events of a   *)
(* session, which Spec bounds by MaxClicks.  SpecEval starts from every    *)
(* combination of presets and renders it once: the useMemo callback as a   *)
(* pure function over its whole domain.                                    *)
(*                                                                         *)
(* Numbers.  The code computes in IEEE doubles.  The model computes in     *)
(* exact non-negative rationals [n, d] in lowest terms, with d = 0 for the *)
(* non-finite results of a division by zero (1/0 is Infinity, 0/0 is NaN). *)
(* Over the whole preset domain (3^10 combinations) the doubles and the    *)
(* rationals give the same toFixed strings for every displayed field and   *)
(* the same threshold comparisons, so the substitution is exact here.      *)
(***************************************************************************)
EXTENDS Integers, FiniteSets, Sequences, TLC

VARIABLES filterWidth, filterLength, filterDepthL, airflowQ, dailyRuntime,
          maxStaticPressure, sorbentCaptureEfficiencyEta,
          sorbentWorkingCapacityCw, initialCo2ConcentrationCin,
          sorbentMassFraction, maxCartridgeWeight,
          memoDeps, calculations, display, statusClass, clicks

\* the values of the state cells that one render of the component sees
inputs ==
    [filterWidth |-> filterWidth,
     filterLength |-> filterLength,
     filterDepthL |-> filterDepthL,
     airflowQ |-> airflowQ,
     dailyRuntime |-> dailyRuntime,
     maxStaticPressure |-> maxStaticPressure,
     sorbentCaptureEfficiencyEta |-> sorbentCaptureEfficiencyEta,
     sorbentWorkingCapacityCw |-> sorbentWorkingCapacityCw,
     initialCo2ConcentrationCin |-> initialCo2ConcentrationCin,
     sorbentMassFraction |-> sorbentMassFraction,
     maxCartridgeWeight |-> maxCartridgeWeight]

vars == <<filterWidth, filterLength, filterDepthL, airflowQ, dailyRuntime,
          maxStaticPressure, sorbentCaptureEfficiencyEta,
          sorbentWorkingCapacityCw, initialCo2ConcentrationCin,
          sorbentMassFraction, maxCartridgeWeight,
          memoDeps, calculations, display, statusClass, clicks>>

\* the longest session of selection events explored
MaxClicks == 5

(***************************************************************************)
(* Number arithmetic: non-negative rationals with Infinity and NaN.        *)
(***************************************************************************)
RECURSIVE GCD(_, _)
GCD(a, b) == IF b = 0 THEN a ELSE GCD(b, a % b)

\* the common factor to cancel (1 when both are 0)
Cancel(a, b) == LET g == GCD(a, b) IN IF g = 0 THEN 1 ELSE g

Rat(n, d) == LET g == Cancel(n, d) IN [n |-> n \div g, d |-> d \div g]

RECURSIVE Pow10(_)
Pow10(k) == IF k = 0 THEN 1 ELSE 10 * Pow10(k - 1)

\* a decimal literal of the source: Dec(254, 4) is 0.0254
Dec(m, f) == Rat(m, Pow10(f))

Num(k) == [n |-> k, d |-> 1]

Infinity == [n |-> 1, d |-> 0]
NaN == [n |-> 0, d |-> 0]

IsFinite(x) == x.d # 0
IsNaN(x) == x.d = 0 /\ x.n = 0

\* x * y, cancelling across before multiplying
Mul(x, y) ==
    LET g1 == Cancel(x.n, y.d)
        g2 == Cancel(y.n, x.d)
    IN  [n |-> (x.n \div g1) * (y.n \div g2),
         d |-> (x.d \div g2) * (y.d \div g1)]

\* x / y; a zero divisor gives Infinity, or NaN for 0 / 0
Div(x, y) == Mul(x, [n |-> y.d, d |-> y.n])

\* x < y and x >= y; every comparison with NaN is false
Lt(x, y) ==
    /\ ~IsNaN(x) /\ ~IsNaN(y)
    /\ IF ~IsFinite(x) THEN FALSE
       ELSE IF ~IsFinite(y) THEN TRUE
       ELSE IF y.n = 0 THEN FALSE
       ELSE LET q == Div(x, y) IN q.n < q.d

Ge(x, y) == ~IsNaN(x) /\ ~IsNaN(y) /\ ~Lt(x, y)

(***************************************************************************)
(* Number.prototype.toFixed and the string-to-number coercion of >=.       *)
(* A finite decimal string is [kind |-> "num", m, f]: the digits of m with *)
(* the point f places from the right ("1.6" is m = 16, f = 1).             *)
(***************************************************************************)
\* floor(r * 10^k / d) and the remainder, one decimal digit at a time
RECURSIVE LongDiv(_, _, _, _)
LongDiv(q, r, d, k) ==
    IF k = 0 THEN [q |-> q, r |-> r]
    ELSE LongDiv(10 * q + ((10 * r) \div d), (10 * r) % d, d, k - 1)

\* the integer m with m / 10^f nearest to x, the larger one on a tie
toFixed(x, f) ==
    IF IsNaN(x) THEN [kind |-> "NaN", m |-> 0, f |-> 0]
    ELSE IF ~IsFinite(x) THEN [kind |-> "Infinity", m |-> 0, f |-> 0]
    ELSE LET s == LongDiv(x.n \div x.d, x.n % x.d, x.d, f)
         IN  [kind |-> "num",
              m |-> IF 2 * s.r >= x.d THEN s.q + 1 ELSE s.q,
              f |-> f]

\* ToNumber of a string that toFixed produced
ToNumber(s) ==
    IF s.kind = "NaN" THEN NaN
    ELSE IF s.kind = "Infinity" THEN Infinity
    ELSE Dec(s.m, s.f)

\* the numeric operand of a relational operator: a string is converted
ToNumeric(val) == IF "kind" \in DOMAIN val THEN ToNumber(val) ELSE val

(***************************************************************************)
(* FinalOutputDisplay.getStatusClass: the first matching threshold wins.   *)
(* val is whatever the caller passes as the value prop; >= converts it.    *)
(***************************************************************************)
BadFrom == Num(3)
OkayFrom == Num(2)
GoodFrom == Num(1)

getStatusClass(val) ==
    LET x == ToNumeric(val)
    IN  IF Ge(x, BadFrom) THEN "bad"
        ELSE IF Ge(x, OkayFrom) THEN "okay"
        ELSE IF Ge(x, GoodFrom) THEN "good"
        ELSE "great"

(***************************************************************************)
(* The preset lists of the ten InputControls.                              *)
(***************************************************************************)
FilterWidthValues == {Num(20), Num(24), Num(25)}
FilterLengthValues == {Num(20), Num(24), Num(25)}
FilterDepthLValues == {Dec(1, 1), Dec(12, 2), Dec(15, 2)}
\* a list with an "off" position
AirflowQValuesWithZero == {Num(0), Dec(47, 2), Dec(57, 2), Dec(66, 2)}

AirflowQValues == {Dec(47, 2), Dec(57, 2), Dec(66, 2)}
DailyRuntimeValues == {Num(6), Num(8), Num(10)}
SorbentCaptureEfficiencyEtaValues == {Dec(18, 3), Dec(22, 3), Dec(25, 3)}
SorbentWorkingCapacityCwValues == {Dec(8, 2), Dec(1, 1), Dec(12, 2)}
InitialCo2ConcentrationCinValues == {Dec(7, 4), Dec(8, 4), Dec(9, 4)}
SorbentMassFractionValues == {Dec(7, 1), Dec(75, 2), Dec(8, 1)}
\* a list with 12.5 entered as 12
MaxCartridgeWeightValuesTyped == {Num(10), Num(12), Num(15)}

MaxCartridgeWeightValues == {Num(10), Dec(125, 1), Num(15)}

(***************************************************************************)
(* The useMemo callback, as a function of the values it closes over.       *)
(***************************************************************************)
\* the factor with a digit dropped
InchesToMetersTenfold == Dec(254, 3)

InchesToMeters == Dec(254, 4)
SecondsPerHour == Num(3600)
DaysPerWeek == Num(7)

\* Calc with the sorbent mass taken from the displayed weekly capture
CalcFromDisplayed(fw, fl, fd, q, rt, eta, cw, cin, mf, mcw) ==
    LET frontalAreaA == Mul(Mul(fw, InchesToMeters), Mul(fl, InchesToMeters))
        airVelocityV == Div(q, frontalAreaA)
        residenceTimeTau == Div(fd, airVelocityV)
        hourlyCo2CaptureRateY == Mul(Mul(Mul(q, cin), eta), SecondsPerHour)
        totalWeeklyCo2Capture == Mul(Mul(hourlyCo2CaptureRateY, rt), DaysPerWeek)
        requiredSorbentMass ==
            Div(ToNumber(toFixed(totalWeeklyCo2Capture, 2)), cw)
        totalFilterWeight == Div(requiredSorbentMass, mf)
        weeklyCartridgeSwaps == Div(totalFilterWeight, mcw)
    IN  [frontalAreaA |-> frontalAreaA,
         airVelocityV |-> airVelocityV,
         residenceTimeTau |-> residenceTimeTau,
         hourlyCo2CaptureRateY |-> hourlyCo2CaptureRateY,
         requiredSorbentMass |-> requiredSorbentMass,
         totalWeeklyCo2Capture |-> totalWeeklyCo2Capture,
         totalFilterWeight |-> totalFilterWeight,
         weeklyCartridgeSwaps |-> weeklyCartridgeSwaps]

\* Calc with the swaps as weight times cartridge weight
CalcSwapsTimesWeight(fw, fl, fd, q, rt, eta, cw, cin, mf, mcw) ==
    LET frontalAreaA == Mul(Mul(fw, InchesToMeters), Mul(fl, InchesToMeters))
        airVelocityV == Div(q, frontalAreaA)
        residenceTimeTau == Div(fd, airVelocityV)
        hourlyCo2CaptureRateY == Mul(Mul(Mul(q, cin), eta), SecondsPerHour)
        totalWeeklyCo2Capture == Mul(Mul(hourlyCo2CaptureRateY, rt), DaysPerWeek)
        requiredSorbentMass == Div(totalWeeklyCo2Capture, cw)
        totalFilterWeight == Div(requiredSorbentMass, mf)
        weeklyCartridgeSwaps == Mul(totalFilterWeight, mcw)
    IN  [frontalAreaA |-> frontalAreaA,
         airVelocityV |-> airVelocityV,
         residenceTimeTau |-> residenceTimeTau,
         hourlyCo2CaptureRateY |-> hourlyCo2CaptureRateY,
         requiredSorbentMass |-> requiredSorbentMass,
         totalWeeklyCo2Capture |-> totalWeeklyCo2Capture,
         totalFilterWeight |-> totalFilterWeight,
         weeklyCartridgeSwaps |-> weeklyCartridgeSwaps]

\* Calc with the capture rate taken from the air velocity
CalcRateFromVelocity(fw, fl, fd, q, rt, eta, cw, cin, mf, mcw) ==
    LET frontalAreaA == Mul(Mul(fw, InchesToMeters), Mul(fl, InchesToMeters))
        airVelocityV == Div(q, frontalAreaA)
        residenceTimeTau == Div(fd, airVelocityV)
        hourlyCo2CaptureRateY == Mul(Mul(Mul(airVelocityV, cin), eta), SecondsPerHour)
        totalWeeklyCo2Capture == Mul(Mul(hourlyCo2CaptureRateY, rt), DaysPerWeek)
        requiredSorbentMass == Div(totalWeeklyCo2Capture, cw)
        totalFilterWeight == Div(requiredSorbentMass, mf)
        weeklyCartridgeSwaps == Div(totalFilterWeight, mcw)
    IN  [frontalAreaA |-> frontalAreaA,
         airVelocityV |-> airVelocityV,
         residenceTimeTau |-> residenceTimeTau,
         hourlyCo2CaptureRateY |-> hourlyCo2CaptureRateY,
         requiredSorbentMass |-> requiredSorbentMass,
         totalWeeklyCo2Capture |-> totalWeeklyCo2Capture,
         totalFilterWeight |-> totalFilterWeight,
         weeklyCartridgeSwaps |-> weeklyCartridgeSwaps]

Calc(fw, fl, fd, q, rt, eta, cw, cin, mf, mcw) ==
    LET frontalAreaA ==  Mul(Mul(fw, InchesToMeters), Mul(fl, InchesToMeters))
        airVelocityV == Div(q, frontalAreaA)
        residenceTimeTau == Div(fd, airVelocityV)
        hourlyCo2CaptureRateY == Mul(Mul(Mul(q, cin), eta), SecondsPerHour)
        totalWeeklyCo2Capture == Mul(Mul(hourlyCo2CaptureRateY, rt), DaysPerWeek)
        requiredSorbentMass == Div(totalWeeklyCo2Capture, cw)
        totalFilterWeight == Div(requiredSorbentMass, mf)
        weeklyCartridgeSwaps == Div(totalFilterWeight, mcw)
    IN  [frontalAreaA |-> frontalAreaA,
         airVelocityV |-> airVelocityV,
         residenceTimeTau |-> residenceTimeTau,
         hourlyCo2CaptureRateY |-> hourlyCo2CaptureRateY,
         requiredSorbentMass |-> requiredSorbentMass,
         totalWeeklyCo2Capture |-> totalWeeklyCo2Capture,
         totalFilterWeight |-> totalFilterWeight,
         weeklyCartridgeSwaps |-> weeklyCartridgeSwaps]

\* the callback, closing over the values s of the render that runs it
ComputeCalculations(s) ==
    Calc(s.filterWidth, s.filterLength, s.filterDepthL, s.airflowQ,
         s.dailyRuntime, s.sorbentCaptureEfficiencyEta,
         s.sorbentWorkingCapacityCw, s.initialCo2ConcentrationCin,
         s.sorbentMassFraction, s.maxCartridgeWeight)

\* a dependency array that leaves out maxCartridgeWeight
DepsWithoutMaxCartridgeWeight(s) ==
    <<s.filterWidth, s.filterLength, s.filterDepthL, s.airflowQ,
      s.dailyRuntime, s.sorbentCaptureEfficiencyEta,
      s.sorbentWorkingCapacityCw, s.initialCo2ConcentrationCin,
      s.sorbentMassFraction>>

\* the dependency array of useMemo in a render that sees the values s
Deps(s) ==
    <<s.filterWidth, s.filterLength, s.filterDepthL, s.airflowQ,
      s.dailyRuntime, s.sorbentCaptureEfficiencyEta,
      s.sorbentWorkingCapacityCw, s.initialCo2ConcentrationCin,
      s.sorbentMassFraction, s.maxCartridgeWeight>>

\* useMemo: the cached value unless a dependency differs from the last render
useMemo(s, prevDeps, prevValue) ==
    IF Deps(s) = prevDeps THEN prevValue ELSE ComputeCalculations(s)

\* the value props of the seven DisplayValues and the FinalOutputDisplay
Displayed(c) ==
    [frontalAreaA |-> toFixed(c.frontalAreaA, 2),
     airVelocityV |-> toFixed(c.airVelocityV, 2),
     residenceTimeTau |-> toFixed(c.residenceTimeTau, 3),
     hourlyCo2CaptureRateY |-> toFixed(c.hourlyCo2CaptureRateY, 3),
     requiredSorbentMass |-> toFixed(c.requiredSorbentMass, 1),
     totalWeeklyCo2Capture |-> toFixed(c.totalWeeklyCo2Capture, 2),
     totalFilterWeight |-> toFixed(c.totalFilterWeight, 1),
     weeklyCartridgeSwaps |-> toFixed(c.weeklyCartridgeSwaps, 1)]

\* the statusClass FinalOutputDisplay computes from its value prop
FinalOutputStatus(value) == getStatusClass(value)

(***************************************************************************)
(* One render of Co2FilterCalculator: useMemo reuses the cached value      *)
(* unless a dependency changed (the first render has no cached value),     *)
(* then the results render.                                                *)
(***************************************************************************)
Render ==
    /\ memoDeps' = Deps(inputs')
    /\ calculations' = useMemo(inputs', memoDeps, calculations)
    /\ display' = Displayed(calculations')
    /\ statusClass' = FinalOutputStatus(display'.weeklyCartridgeSwaps)

\* nothing computed or shown yet
NoDeps == <<>>
NoCalculations ==
    [k \in {"frontalAreaA", "airVelocityV", "residenceTimeTau",
             "hourlyCo2CaptureRateY", "requiredSorbentMass",
             "totalWeeklyCo2Capture", "totalFilterWeight",
             "weeklyCartridgeSwaps"} |-> NaN]
NoDisplay == [k \in DOMAIN NoCalculations |-> [kind |-> "none", m |-> 0, f |-> 0]]

Mounted == memoDeps # NoDeps

\* the useState initial values, before the first render
Init ==
    /\ filterWidth = Num(20)
    /\ filterLength = Num(20)
    /\ filterDepthL = Dec(1, 1)
    /\ airflowQ = Dec(47, 2)
    /\ dailyRuntime = Num(6)
    /\ maxStaticPressure = Num(80)
    /\ sorbentCaptureEfficiencyEta = Dec(18, 3)
    /\ sorbentWorkingCapacityCw = Dec(8, 2)
    /\ initialCo2ConcentrationCin = Dec(7, 4)
    /\ sorbentMassFraction = Dec(7, 1)
    /\ maxCartridgeWeight = Num(10)
    /\ memoDeps = NoDeps
    /\ calculations = NoCalculations
    /\ display = NoDisplay
    /\ statusClass = "none"
    /\ clicks = 0

\* the first render
Mount ==
    /\ ~Mounted
    /\ UNCHANGED <<filterWidth, filterLength, filterDepthL, airflowQ,
                   dailyRuntime, maxStaticPressure,
                   sorbentCaptureEfficiencyEta, sorbentWorkingCapacityCw,
                   initialCo2ConcentrationCin, sorbentMassFraction,
                   maxCartridgeWeight, clicks>>
    /\ Render

\* a click is possible once the buttons are on screen
CanClick == Mounted /\ clicks < MaxClicks

\* a setter called with the value its cell holds: React skips the render
SameValue ==
    UNCHANGED <<filterWidth, filterLength, filterDepthL, airflowQ,
                dailyRuntime, maxStaticPressure, sorbentCaptureEfficiencyEta,
                sorbentWorkingCapacityCw, initialCo2ConcentrationCin,
                sorbentMassFraction, maxCartridgeWeight,
                memoDeps, calculations, display, statusClass>>

(***************************************************************************)
(* The ten controls: RadioButtons calls onChange(value) for the clicked    *)
(* preset, and onChange is the setter of the control's own state cell.  A  *)
(* setter given the value the cell already holds (Object.is) makes React   *)
(* skip the render.                                                        *)
(***************************************************************************)
ClickFilterWidth ==
    /\ CanClick
    /\ clicks' = clicks + 1
    /\ \E value \in FilterWidthValues :
           IF value = filterWidth THEN SameValue
           ELSE /\ filterWidth' = value
                /\ UNCHANGED <<filterLength, filterDepthL, airflowQ, dailyRuntime,
                               maxStaticPressure, sorbentCaptureEfficiencyEta,
                               sorbentWorkingCapacityCw, initialCo2ConcentrationCin,
                               sorbentMassFraction, maxCartridgeWeight>>
                /\ Render

\* the length control wired to setFilterWidth
ClickFilterLengthSetsWidth ==
    /\ CanClick
    /\ clicks' = clicks + 1
    /\ \E value \in FilterLengthValues :
           IF value = filterLength THEN SameValue
           ELSE /\ filterWidth' = value
                /\ UNCHANGED <<filterLength, filterDepthL, airflowQ, dailyRuntime,
                               maxStaticPressure, sorbentCaptureEfficiencyEta,
                               sorbentWorkingCapacityCw, initialCo2ConcentrationCin,
                               sorbentMassFraction, maxCartridgeWeight>>
                /\ Render

ClickFilterLength ==
    /\ CanClick
    /\ clicks' = clicks + 1
    /\ \E value \in FilterLengthValues :
           IF value = filterLength THEN SameValue
           ELSE /\ filterLength' = value
                /\ UNCHANGED <<filterWidth, filterDepthL, airflowQ, dailyRuntime,
                               maxStaticPressure, sorbentCaptureEfficiencyEta,
                               sorbentWorkingCapacityCw, initialCo2ConcentrationCin,
                               sorbentMassFraction, maxCartridgeWeight>>
                /\ Render

\* the depth control wired to setMaxStaticPressure
ClickFilterDepthLSetsPressure ==
    /\ CanClick
    /\ clicks' = clicks + 1
    /\ \E value \in FilterDepthLValues :
           IF value = maxStaticPressure THEN SameValue
           ELSE /\ maxStaticPressure' = value
                /\ UNCHANGED <<filterWidth, filterLength, filterDepthL, airflowQ,
                               dailyRuntime, sorbentCaptureEfficiencyEta,
                               sorbentWorkingCapacityCw, initialCo2ConcentrationCin,
                               sorbentMassFraction, maxCartridgeWeight>>
                /\ Render

ClickFilterDepthL ==
    /\ CanClick
    /\ clicks' = clicks + 1
    /\ \E value \in FilterDepthLValues :
           IF value = filterDepthL THEN SameValue
           ELSE /\ filterDepthL' = value
                /\ UNCHANGED <<filterWidth, filterLength, airflowQ, dailyRuntime,
                               maxStaticPressure, sorbentCaptureEfficiencyEta,
                               sorbentWorkingCapacityCw, initialCo2ConcentrationCin,
                               sorbentMassFraction, maxCartridgeWeight>>
                /\ Render

ClickAirflowQ ==
    /\ CanClick
    /\ clicks' = clicks + 1
    /\ \E value \in AirflowQValues :
           IF value = airflowQ THEN SameValue
           ELSE /\ airflowQ' = value
                /\ UNCHANGED <<filterWidth, filterLength, filterDepthL, dailyRuntime,
                               maxStaticPressure, sorbentCaptureEfficiencyEta,
                               sorbentWorkingCapacityCw, initialCo2ConcentrationCin,
                               sorbentMassFraction, maxCartridgeWeight>>
                /\ Render

ClickDailyRuntime ==
    /\ CanClick
    /\ clicks' = clicks + 1
    /\ \E value \in DailyRuntimeValues :
           IF value = dailyRuntime THEN SameValue
           ELSE /\ dailyRuntime' = value
                /\ UNCHANGED <<filterWidth, filterLength, filterDepthL, airflowQ,
                               maxStaticPressure, sorbentCaptureEfficiencyEta,
                               sorbentWorkingCapacityCw, initialCo2ConcentrationCin,
                               sorbentMassFraction, maxCartridgeWeight>>
                /\ Render

ClickSorbentCaptureEfficiencyEta ==
    /\ CanClick
    /\ clicks' = clicks + 1
    /\ \E value \in SorbentCaptureEfficiencyEtaValues :
           IF value = sorbentCaptureEfficiencyEta THEN SameValue
           ELSE /\ sorbentCaptureEfficiencyEta' = value
                /\ UNCHANGED <<filterWidth, filterLength, filterDepthL, airflowQ,
                               dailyRuntime, maxStaticPressure,
                               sorbentWorkingCapacityCw, initialCo2ConcentrationCin,
                               sorbentMassFraction, maxCartridgeWeight>>
                /\ Render

ClickSorbentWorkingCapacityCw ==
    /\ CanClick
    /\ clicks' = clicks + 1
    /\ \E value \in SorbentWorkingCapacityCwValues :
           IF value = sorbentWorkingCapacityCw THEN SameValue
           ELSE /\ sorbentWorkingCapacityCw' = value
                /\ UNCHANGED <<filterWidth, filterLength, filterDepthL, airflowQ,
                               dailyRuntime, maxStaticPressure,
                               sorbentCaptureEfficiencyEta, initialCo2ConcentrationCin,
                               sorbentMassFraction, maxCartridgeWeight>>
                /\ Render

ClickInitialCo2ConcentrationCin ==
    /\ CanClick
    /\ clicks' = clicks + 1
    /\ \E value \in InitialCo2ConcentrationCinValues :
           IF value = initialCo2ConcentrationCin THEN SameValue
           ELSE /\ initialCo2ConcentrationCin' = value
                /\ UNCHANGED <<filterWidth, filterLength, filterDepthL, airflowQ,
                               dailyRuntime, maxStaticPressure,
                               sorbentCaptureEfficiencyEta, sorbentWorkingCapacityCw,
                               sorbentMassFraction, maxCartridgeWeight>>
                /\ Render

ClickSorbentMassFraction ==
    /\ CanClick
    /\ clicks' = clicks + 1
    /\ \E value \in SorbentMassFractionValues :
           IF value = sorbentMassFraction THEN SameValue
           ELSE /\ sorbentMassFraction' = value
                /\ UNCHANGED <<filterWidth, filterLength, filterDepthL, airflowQ,
                               dailyRuntime, maxStaticPressure,
                               sorbentCaptureEfficiencyEta, sorbentWorkingCapacityCw,
                               initialCo2ConcentrationCin, maxCartridgeWeight>>
                /\ Render

ClickMaxCartridgeWeight ==
    /\ CanClick
    /\ clicks' = clicks + 1
    /\ \E value \in MaxCartridgeWeightValues :
           IF value = maxCartridgeWeight THEN SameValue
           ELSE /\ maxCartridgeWeight' = value
                /\ UNCHANGED <<filterWidth, filterLength, filterDepthL, airflowQ,
                               dailyRuntime, maxStaticPressure,
                               sorbentCaptureEfficiencyEta, sorbentWorkingCapacityCw,
                               initialCo2ConcentrationCin, sorbentMassFraction>>
                /\ Render

Next ==
    \/ Mount
    \/ ClickFilterWidth
    \/ ClickFilterLength
    \/ ClickFilterDepthL
    \/ ClickAirflowQ
    \/ ClickDailyRuntime
    \/ ClickSorbentCaptureEfficiencyEta
    \/ ClickSorbentWorkingCapacityCw
    \/ ClickInitialCo2ConcentrationCin
    \/ ClickSorbentMassFraction
    \/ ClickMaxCartridgeWeight

Spec == Init /\ [][Next]_vars

\* every combination of presets the controls offer, not yet rendered
InitEval ==
    /\ filterWidth \in FilterWidthValues
    /\ filterLength \in FilterLengthValues
    /\ filterDepthL \in FilterDepthLValues
    /\ airflowQ \in AirflowQValues
    /\ dailyRuntime \in DailyRuntimeValues
    /\ maxStaticPressure = Num(80)
    /\ sorbentCaptureEfficiencyEta \in SorbentCaptureEfficiencyEtaValues
    /\ sorbentWorkingCapacityCw \in SorbentWorkingCapacityCwValues
    /\ initialCo2ConcentrationCin \in InitialCo2ConcentrationCinValues
    /\ sorbentMassFraction \in SorbentMassFractionValues
    /\ maxCartridgeWeight \in MaxCartridgeWeightValues
    /\ memoDeps = NoDeps
    /\ calculations = NoCalculations
    /\ display = NoDisplay
    /\ statusClass = "none"
    /\ clicks = 0

SpecEval == InitEval /\ [][Mount]_vars

(***************************************************************************)
(* Properties.                                                             *)
(***************************************************************************)
\* the documented default selection
Defaults ==
    [filterWidth |-> Num(20),
     filterLength |-> Num(20),
     filterDepthL |-> Dec(1, 1),
     airflowQ |-> Dec(47, 2),
     dailyRuntime |-> Num(6),
     maxStaticPressure |-> Num(80),
     sorbentCaptureEfficiencyEta |-> Dec(18, 3),
     sorbentWorkingCapacityCw |-> Dec(8, 2),
     initialCo2ConcentrationCin |-> Dec(7, 4),
     sorbentMassFraction |-> Dec(7, 1),
     maxCartridgeWeight |-> Num(10)]

\* the four-band step function of the specification, on a number
Band(x) ==
    IF Ge(x, Num(3)) THEN "bad"
    ELSE IF Ge(x, Num(2)) /\ Lt(x, Num(3)) THEN "okay"
    ELSE IF Ge(x, Num(1)) /\ Lt(x, Num(2)) THEN "good"
    ELSE "great"

\* every control has been moved off its default
AllMoved ==
    \A k \in (DOMAIN inputs) \ {"maxStaticPressure"} : inputs[k] # Defaults[k]

\* the inputs with one of filterWidth, filterLength, filterDepthL replaced
GeometryVariants ==
    {[inputs EXCEPT !.filterWidth = v] : v \in {Num(20), Num(24), Num(25)}}
    \cup {[inputs EXCEPT !.filterLength = v] : v \in {Num(20), Num(24), Num(25)}}
    \cup {[inputs EXCEPT !.filterDepthL = v] :
             v \in {Dec(1, 1), Dec(12, 2), Dec(15, 2)}}

\* C1: in every rendered state the band shown for the headline metric is
\* the band of the unrounded weeklyCartridgeSwaps: rounding the value to one
\* decimal place for display does not change the band.
C1_BandOfUnroundedSwaps ==
    Mounted => statusClass = Band(calculations.weeklyCartridgeSwaps)

\* C2: the bands are the closed-open intervals of weeklyCartridgeSwaps:
\* bad from 3 up, okay on [2, 3), good on [1, 2), great below 1; a value just
\* below a threshold stays in the lower band.
C2_ClosedOpenBands ==
    Mounted =>
        \A x \in {calculations.weeklyCartridgeSwaps} :
            /\ (statusClass = "bad") <=> Ge(x, Num(3))
            /\ (statusClass = "okay") <=> (Ge(x, Num(2)) /\ Lt(x, Num(3)))
            /\ (statusClass = "good") <=> (Ge(x, Num(1)) /\ Lt(x, Num(2)))
            /\ (statusClass = "great") <=> Lt(x, Num(1))

\* C3: for every combination of presets, once rendered, each derived output
\* equals its formula applied to the inputs and to the unrounded earlier
\* outputs of the chain.
C3_FormulaChain ==
    Mounted =>
        \A c \in {calculations} :
            /\ c.frontalAreaA =
                  Mul(Mul(filterWidth, Dec(254, 4)),
                      Mul(filterLength, Dec(254, 4)))
            /\ c.airVelocityV = Div(airflowQ, c.frontalAreaA)
            /\ c.residenceTimeTau = Div(filterDepthL, c.airVelocityV)
            /\ c.hourlyCo2CaptureRateY =
                  Mul(Mul(Mul(airflowQ, initialCo2ConcentrationCin),
                          sorbentCaptureEfficiencyEta), Num(3600))
            /\ c.totalWeeklyCo2Capture =
                  Mul(Mul(c.hourlyCo2CaptureRateY, dailyRuntime), Num(7))
            /\ c.requiredSorbentMass =
                  Div(c.totalWeeklyCo2Capture, sorbentWorkingCapacityCw)
            /\ c.totalFilterWeight =
                  Div(c.requiredSorbentMass, sorbentMassFraction)
            /\ c.weeklyCartridgeSwaps =
                  Div(c.totalFilterWeight, maxCartridgeWeight)

C3_Witness == Mounted /\ AllMoved /\ C3_FormulaChain

\* C4: for every combination of presets, once rendered, every divisor of the
\* chain is non-zero, every derived output is finite and nothing shown is
\* Infinity or NaN.
C4_FiniteOutputs ==
    Mounted =>
        /\ \A x \in {calculations.frontalAreaA, calculations.airVelocityV,
                     sorbentWorkingCapacityCw, sorbentMassFraction,
                     maxCartridgeWeight} : IsFinite(x) /\ x.n # 0
        /\ \A k \in DOMAIN calculations : IsFinite(calculations[k])
        /\ \A k \in DOMAIN display : display[k].kind = "num"

C4_Witness ==
    /\ Mounted
    /\ filterWidth = Num(25) /\ filterLength = Num(25)
    /\ airflowQ = Dec(47, 2)
    /\ sorbentWorkingCapacityCw = Dec(12, 2)
    /\ sorbentMassFraction = Dec(8, 1)
    /\ maxCartridgeWeight = Num(15)
    /\ C4_FiniteOutputs

\* C5: in every rendered state the memoized outputs, the displayed values
\* and the band are those of the current inputs, whatever the history.
C5_NeverStale ==
    Mounted =>
        \A c \in {ComputeCalculations(inputs)} :
            /\ calculations = c
            /\ display = Displayed(c)
            /\ statusClass = FinalOutputStatus(toFixed(c.weeklyCartridgeSwaps, 1))

C5_Witness ==
    /\ Mounted
    /\ clicks >= 3
    /\ inputs = [Defaults EXCEPT !.maxCartridgeWeight = Num(15),
                                 !.filterWidth = Num(24)]
    /\ calculations = ComputeCalculations(inputs)

\* C6: for every combination of presets, a larger preset of
\* maxCartridgeWeight gives strictly fewer weeklyCartridgeSwaps, and a larger
\* preset of sorbentCaptureEfficiency a strictly larger hourlyCo2CaptureRate,
\* all other inputs held fixed.
C6_Monotone ==
    Mounted =>
        /\ \A m \in {Num(10), Dec(125, 1), Num(15)} :
              Lt(maxCartridgeWeight, m) =>
                  Lt(ComputeCalculations(
                         [inputs EXCEPT !.maxCartridgeWeight = m]).weeklyCartridgeSwaps,
                     calculations.weeklyCartridgeSwaps)
        /\ \A e \in {Dec(18, 3), Dec(22, 3), Dec(25, 3)} :
              Lt(sorbentCaptureEfficiencyEta, e) =>
                  Lt(calculations.hourlyCo2CaptureRateY,
                     ComputeCalculations(
                         [inputs EXCEPT !.sorbentCaptureEfficiencyEta = e]).hourlyCo2CaptureRateY)

C6_Witness ==
    /\ Mounted
    /\ maxCartridgeWeight = Num(10)
    /\ sorbentCaptureEfficiencyEta = Dec(22, 3)
    /\ airflowQ = Dec(66, 2)
    /\ C6_Monotone

\* C7 as documented: with the default selection the outputs round to
\* 0.2581, 1.821, 0.0549, 0.02133, 0.8960, 11.20, 16.00 and 1.600, band good.
C7_DocumentedScenario ==
    (Mounted /\ inputs = Defaults) =>
        /\ toFixed(calculations.frontalAreaA, 4).m = 2581
        /\ toFixed(calculations.airVelocityV, 3).m = 1821
        /\ toFixed(calculations.residenceTimeTau, 4).m = 549
        /\ toFixed(calculations.hourlyCo2CaptureRateY, 5).m = 2133
        /\ toFixed(calculations.totalWeeklyCo2Capture, 4).m = 8960
        /\ toFixed(calculations.requiredSorbentMass, 2).m = 1120
        /\ toFixed(calculations.totalFilterWeight, 2).m = 1600
        /\ toFixed(calculations.weeklyCartridgeSwaps, 3).m = 1600
        /\ statusClass = "good"

\* C7 as amended: with the default selection the outputs round to
\* 0.2581, 1.821, 0.0549, 0.02132, 0.8954, 11.19, 15.99 and 1.599, band good.
C7_DefaultScenario ==
    (Mounted /\ inputs = Defaults) =>
        /\ toFixed(calculations.frontalAreaA, 4).m = 2581
        /\ toFixed(calculations.airVelocityV, 3).m = 1821
        /\ toFixed(calculations.residenceTimeTau, 4).m = 549
        /\ toFixed(calculations.hourlyCo2CaptureRateY, 5).m = 2132
        /\ toFixed(calculations.totalWeeklyCo2Capture, 4).m = 8954
        /\ toFixed(calculations.requiredSorbentMass, 2).m = 1119
        /\ toFixed(calculations.totalFilterWeight, 2).m = 1599
        /\ toFixed(calculations.weeklyCartridgeSwaps, 3).m = 1599
        /\ statusClass = "good"

C7_Witness ==
    /\ Mounted
    /\ inputs = Defaults
    /\ display.weeklyCartridgeSwaps = [kind |-> "num", m |-> 16, f |-> 1]
    /\ statusClass = "good"

\* C8: with the defaults, filterWidth 25 in place of 20 gives a strictly
\* lower airVelocity and the same hourlyCo2CaptureRate and
\* totalWeeklyCo2Capture; and for every combination of presets another
\* filterWidth, filterLength or filterDepth gives the same
\* requiredSorbentMass, totalFilterWeight, weeklyCartridgeSwaps and band.
C8_GeometryFrame ==
    Mounted =>
        /\ inputs = Defaults =>
              \A c \in {ComputeCalculations([inputs EXCEPT !.filterWidth = Num(25)])} :
                  /\ Lt(c.airVelocityV, calculations.airVelocityV)
                  /\ c.hourlyCo2CaptureRateY = calculations.hourlyCo2CaptureRateY
                  /\ c.totalWeeklyCo2Capture = calculations.totalWeeklyCo2Capture
        /\ \A c \in {ComputeCalculations(g) : g \in GeometryVariants} :
              /\ c.requiredSorbentMass = calculations.requiredSorbentMass
              /\ c.totalFilterWeight = calculations.totalFilterWeight
              /\ c.weeklyCartridgeSwaps = calculations.weeklyCartridgeSwaps
              /\ FinalOutputStatus(toFixed(c.weeklyCartridgeSwaps, 1)) = statusClass

C8_Witness ==
    /\ Mounted
    /\ inputs = Defaults
    /\ Lt(ComputeCalculations([inputs EXCEPT !.filterWidth = Num(25)]).airVelocityV,
          calculations.airVelocityV)
    /\ statusClass = "good"

\* C9: maxStaticPressure is 80 in every reachable state: no control changes
\* it; and with another pressure in its cell the render would compute the
\* same dependency array, outputs and band.
C9_StaticPressureFixed ==
    /\ maxStaticPressure = Num(80)
    /\ Mounted =>
          \A s \in {[inputs EXCEPT !.maxStaticPressure = p] :
                       p \in {Num(0), Num(60), Num(100)}} :
              /\ Deps(s) = memoDeps
              /\ ComputeCalculations(s) = calculations

C9_Witness ==
    /\ Mounted
    /\ clicks >= 3
    /\ filterDepthL = Dec(15, 2)
    /\ maxCartridgeWeight = Num(15)
    /\ maxStaticPressure = Num(80)

\* C10: in every reachable state every input field holds one of the
\* documented presets of its own control.
C10_PresetDomain ==
    /\ filterWidth \in {Num(20), Num(24), Num(25)}
    /\ filterLength \in {Num(20), Num(24), Num(25)}
    /\ filterDepthL \in {Dec(1, 1), Dec(12, 2), Dec(15, 2)}
    /\ airflowQ \in {Dec(47, 2), Dec(57, 2), Dec(66, 2)}
    /\ dailyRuntime \in {Num(6), Num(8), Num(10)}
    /\ sorbentCaptureEfficiencyEta \in {Dec(18, 3), Dec(22, 3), Dec(25, 3)}
    /\ sorbentWorkingCapacityCw \in {Dec(8, 2), Dec(10, 2), Dec(12, 2)}
    /\ initialCo2ConcentrationCin \in {Dec(7, 4), Dec(8, 4), Dec(9, 4)}
    /\ sorbentMassFraction \in {Dec(7, 1), Dec(75, 2), Dec(8, 1)}
    /\ maxCartridgeWeight \in {Num(10), Dec(125, 1), Num(15)}

C10_Witness ==
    /\ Mounted
    /\ filterWidth = Num(25)
    /\ filterDepthL = Dec(15, 2)
    /\ dailyRuntime = Num(10)
    /\ sorbentMassFraction = Dec(75, 2)
    /\ maxCartridgeWeight = Dec(125, 1)
    /\ C10_PresetDomain

\* a step that leaves every input field but f as it is, and puts in f a
\* value of the list vs
SetsOnly(f, vs) ==
    /\ inputs'[f] \in vs
    /\ \A k \in (DOMAIN inputs) \ {f} : inputs'[k] = inputs[k]

\* C11: a click on a button of one control puts one of that control's presets
\* in that control's field and leaves every other input field unchanged; and
\* a click that leaves the inputs as they are (the preset already selected)
\* leaves the memoized outputs, the displayed values and the band unchanged.
C11_SelectionFrame ==
    [][ /\ ClickFilterWidth => SetsOnly("filterWidth", {Num(20), Num(24), Num(25)})
        /\ ClickFilterLength => SetsOnly("filterLength", {Num(20), Num(24), Num(25)})
        /\ ClickFilterDepthL =>
              SetsOnly("filterDepthL", {Dec(1, 1), Dec(12, 2), Dec(15, 2)})
        /\ ClickAirflowQ =>
              SetsOnly("airflowQ", {Dec(47, 2), Dec(57, 2), Dec(66, 2)})
        /\ ClickDailyRuntime => SetsOnly("dailyRuntime", {Num(6), Num(8), Num(10)})
        /\ ClickSorbentCaptureEfficiencyEta =>
              SetsOnly("sorbentCaptureEfficiencyEta",
                       {Dec(18, 3), Dec(22, 3), Dec(25, 3)})
        /\ ClickSorbentWorkingCapacityCw =>
              SetsOnly("sorbentWorkingCapacityCw",
                       {Dec(8, 2), Dec(10, 2), Dec(12, 2)})
        /\ ClickInitialCo2ConcentrationCin =>
              SetsOnly("initialCo2ConcentrationCin",
                       {Dec(7, 4), Dec(8, 4), Dec(9, 4)})
        /\ ClickSorbentMassFraction =>
              SetsOnly("sorbentMassFraction", {Dec(7, 1), Dec(75, 2), Dec(8, 1)})
        /\ ClickMaxCartridgeWeight =>
              SetsOnly("maxCartridgeWeight", {Num(10), Dec(125, 1), Num(15)})
        /\ (clicks' = clicks + 1 /\ inputs' = inputs) =>
              /\ memoDeps' = memoDeps
              /\ calculations' = calculations
              /\ display' = display
              /\ statusClass' = statusClass ]_vars

\* one click on the selected length and one that moved it, nothing else moved
C11_Witness ==
    /\ Mounted
    /\ clicks = 2
    /\ inputs = [Defaults EXCEPT !.filterLength = Num(24)]
    /\ calculations = ComputeCalculations(inputs)

====
